---- MODULE Spec2Model ----
(***************************************************************************)
(* Model of the versioned backup / restore system:                         *)
(*   schema_manager.py  SchemaManager.compare_versions / _compare_tables   *)
(*   mapper.py          DataMapper (generate_automatic_mapping, map_row,   *)
(*                      add_table_mapping, type resolver, transforms)      *)
(*   restore_engine.py  RestoreEngine.restore_from_file                    *)
(*                                                                         *)
(* Python values are tagged records [k, v]: k is the Python type ("int",   *)
(* "str", "null" for None) and v the printed form of the value, so that    *)
(* str(45) = "45" and int("45") = 45 change the tag and int("A") raises.   *)
(* A dict is a function whose DOMAIN is its key set: an absent key and a   *)
(* key holding None are different rows.                                    *)
(***************************************************************************)
EXTENDS Integers, Sequences, FiniteSets, TLC

VARIABLES
    source_schema,         \* DataMapper.source_schema (a version label of Versions)
    target_schema,         \* DataMapper.target_schema
    mappings,              \* DataMapper.mappings: source_table -> TableMapping
    auto_generated_count,  \* DataMapper.auto_generated_count
    manual_count,          \* DataMapper.manual_count
    transformation_rules,  \* DataMapper.transformation_rules (its key set)
    target_version,        \* RestoreEngine.target_version
    mapper,                \* RestoreEngine.mapper: TRUE when a DataMapper is configured
    versions,              \* SchemaManager.versions (the labels it has loaded)
    hash_seed,             \* the interpreter's string hash seed: fixes set iteration order
    map_row_calls,         \* the map_row invocations made by the last call, in order
    ret,                   \* the last call: its operation, arguments and outcome
    prev                   \* the compare_versions call before the last one

vars == <<source_schema, target_schema, mappings, auto_generated_count, manual_count,
          transformation_rules, target_version, mapper, versions, hash_seed,
          map_row_calls, ret, prev>>

----------------------------------------------------------------------------
(* Bounds of the model *)

\* generate_automatic_mapping is callable while the counters' total is below this
MaxCount == 4

\* longest row sequence of a backup record
MaxRows == 2

----------------------------------------------------------------------------
(* Python values *)

Null == [k |-> "null", v |-> ""]
I(s) == [k |-> "int", v |-> s]
S(s) == [k |-> "str", v |-> s]

\* Optional[str] attributes that hold None (FieldMapping.transform, .source_field)
NONE == "<None>"

\* the exception a call raised instead of returning
Raised == [k |-> "raise", v |-> "ValueError"]

\* strings int() accepts
Numerals == {"1", "2", "7", "45"}

\* str(value)
py_str(value) == IF value.k = "null" THEN S("None") ELSE S(value.v)

\* int(value): ValueError for a string that is no numeral (TypeError for None)
py_int(value) ==
    IF value.k = "int" THEN value
    ELSE IF value.k = "str" /\ value.v \in Numerals THEN I(value.v)
    ELSE Raised

\* a lookup that answers the empty string for an absent key
DictGet_EmptyString(d, key) == IF key \in DOMAIN d THEN d[key] ELSE S("")

\* dict.get(key): None for an absent key
DictGet(d, key) == IF key \in DOMAIN d THEN d[key] ELSE Null

\* d[key] = value
DictSet(d, key, value) ==
    [x \in DOMAIN d \cup {key} |-> IF x = key THEN value ELSE d[x]]

EmptyDict == [x \in {} |-> Null]

\* A set of strings is iterated in an order its hash seed fixes for the whole
\* process; two seeds are modelled, giving ascending and descending name order.
NameOrder ==
    <<"age", "day", "email", "id", "label", "labs", "name", "patients", "ssn",
      "status", "visits">>

HashSeeds == {"ascending", "descending"}

RECURSIVE Reverse(_)
Reverse(seq) == IF seq = <<>> THEN <<>> ELSE Append(Reverse(Tail(seq)), Head(seq))

\* list(set) / `for x in set`: the elements of `set` in iteration order
SetOrder(set, seed) ==
    LET In(x) == x \in set
        asc == SelectSeq(NameOrder, In)
    IN  IF seed = "ascending" THEN asc ELSE Reverse(asc)

----------------------------------------------------------------------------
(* Schema model: schema_manager.py *)

FieldDefinition(name, type, nullable, default) ==
    [name |-> name, type |-> type, nullable |-> nullable, default |-> default]

TableDefinition(name, fields, primary_key, foreign_keys) ==
    [name |-> name, fields |-> fields, primary_key |-> primary_key,
     foreign_keys |-> foreign_keys]

\* {f.name: f for f in table.fields}: the last definition of a name wins
FieldsByName(table) ==
    [n \in {table.fields[i].name : i \in DOMAIN table.fields} |->
        LET last == CHOOSE i \in DOMAIN table.fields :
                        /\ table.fields[i].name = n
                        /\ \A j \in DOMAIN table.fields :
                               table.fields[j].name = n => j <= i
        IN  table.fields[last]]

\* the schema version documents there are: version label -> SchemaVersion
Versions ==
    [v \in {"1.0.0", "2.0.0", "3.0.0"} |->
      CASE v = "1.0.0" ->
        [version |-> v, tables |->
          [t \in {"patients", "visits"} |->
            IF t = "patients"
            THEN TableDefinition(t,
                   <<FieldDefinition("id", "INT", FALSE, Null),
                     FieldDefinition("name", "VARCHAR", TRUE, Null),
                     FieldDefinition("age", "INT", TRUE, Null)>>,
                   <<"id">>, EmptyDict)
            ELSE TableDefinition(t,
                   <<FieldDefinition("id", "INT", TRUE, Null),
                     FieldDefinition("day", "DATE", TRUE, Null)>>,
                   <<"id">>, EmptyDict)]]
        [] v = "2.0.0" ->
        [version |-> v, tables |->
          [t \in {"patients", "visits", "labs"} |->
            CASE t = "patients" ->
                 TableDefinition(t,
                   <<FieldDefinition("id", "INT", FALSE, Null),
                     FieldDefinition("name", "VARCHAR", TRUE, Null),
                     FieldDefinition("age", "BIGINT", TRUE, Null),
                     FieldDefinition("email", "VARCHAR", TRUE, Null)>>,
                   <<"id">>, EmptyDict)
              [] t = "visits" ->
                 TableDefinition(t,
                   <<FieldDefinition("id", "INT", FALSE, Null),
                     FieldDefinition("day", "DATETIME", TRUE, Null),
                     FieldDefinition("label", "TEXT", TRUE, S("n/a"))>>,
                   <<"id">>, EmptyDict)
              [] t = "labs" ->
                 TableDefinition(t,
                   <<FieldDefinition("id", "INT", FALSE, Null)>>,
                   <<"id">>, EmptyDict)]]
        [] v = "3.0.0" ->
        [version |-> v, tables |->
          [t \in {"patients", "labs"} |->
            IF t = "patients"
            THEN TableDefinition(t,
                   <<FieldDefinition("id", "INT", FALSE, Null),
                     FieldDefinition("age", "INT", TRUE, Null),
                     FieldDefinition("ssn", "VARCHAR", FALSE, Null),
                     FieldDefinition("label", "VARCHAR", TRUE, Null),
                     FieldDefinition("status", "VARCHAR", FALSE, S("new"))>>,
                   <<"id">>, EmptyDict)
            \* labs of 2.0.0 with only a default, the primary key and a
            \* foreign key changed
            ELSE TableDefinition(t,
                   <<FieldDefinition("id", "INT", FALSE, S("0"))>>,
                   <<>>, [x \in {"id"} |-> "patients.id"])]]]

\* version labels a caller may pass; "9.9.9" is registered nowhere
VersionLabels == DOMAIN Versions \cup {"9.9.9"}

\* table names a caller may pass
TableNames == {"patients", "visits", "labs"}

----------------------------------------------------------------------------
(* Type compatibility resolver and mapping generator: mapper.py *)

FieldMapping(source_field, target_field, transform, default_value, mapping_type) ==
    [source_field |-> source_field, target_field |-> target_field,
     transform |-> transform, default_value |-> default_value,
     mapping_type |-> mapping_type]

TableMapping(source_table, target_table, field_mappings) ==
    [source_table |-> source_table, target_table |-> target_table,
     field_mappings |-> field_mappings, condition |-> NONE]

compatible_types ==
    {<<"INT", "BIGINT">>, <<"FLOAT", "DOUBLE">>, <<"VARCHAR", "TEXT">>,
     <<"DATE", "DATETIME">>}

\* a resolver that forgets that identical types are compatible
is_type_compatible_WideningOnly(source_type, target_type) ==
    <<source_type, target_type>> \in compatible_types

is_type_compatible(source_type, target_type) ==
    IF source_type = target_type THEN TRUE
    ELSE <<source_type, target_type>> \in compatible_types

get_type_cast(source_type, target_type) ==
    CASE <<source_type, target_type>> = <<"INT", "BIGINT">> -> "to_bigint"
      [] <<source_type, target_type>> = <<"FLOAT", "DOUBLE">> -> "to_double"
      [] <<source_type, target_type>> = <<"VARCHAR", "TEXT">> -> "to_text"
      [] <<source_type, target_type>> = <<"DATE", "DATETIME">> -> "to_datetime"
      [] OTHER -> "identity"

\* Phase 1, one common field: the FieldMapping appended for it
CommonFieldMapping(field_name, source_field, target_field) ==
    IF is_type_compatible(source_field.type, target_field.type)
    THEN FieldMapping(field_name, field_name, NONE, Null, "direct")
    ELSE FieldMapping(field_name, field_name,
                      get_type_cast(source_field.type, target_field.type),
                      Null, "cast")

\* Phase 3 with the nullable test moved before the computed-rule test
AddedFieldMapping_NullableFirst(field_name, target_field, rules) ==
    IF target_field.default # Null
    THEN <<FieldMapping(NONE, field_name, NONE, target_field.default, "default")>>
    ELSE IF target_field.nullable
    THEN <<FieldMapping(NONE, field_name, NONE, Null, "default")>>
    ELSE IF field_name \in rules
    THEN <<FieldMapping(NONE, field_name, field_name, Null, "computed")>>
    ELSE <<>>

\* Phase 3, one added field: the FieldMappings appended for it (none when the
\* field needs a manual mapping)
AddedFieldMapping(field_name, target_field, rules) ==
    IF target_field.default # Null
    THEN <<FieldMapping(NONE, field_name, NONE, target_field.default, "default")>>
    ELSE IF field_name \in rules
    THEN <<FieldMapping(NONE, field_name, field_name, Null, "computed")>>
    ELSE IF target_field.nullable
    THEN <<FieldMapping(NONE, field_name, NONE, Null, "default")>>
    ELSE <<>>

RECURSIVE AddedFieldMappings(_, _, _)
\* Phase 3 over the added fields in the iteration order `order`
AddedFieldMappings(order, target_fields, rules) ==
    IF order = <<>> THEN <<>>
    ELSE AddedFieldMapping(Head(order), target_fields[Head(order)], rules)
         \o AddedFieldMappings(Tail(order), target_fields, rules)

\* The field_mappings list built by generate_automatic_mapping when the set of
\* common fields is iterated in order `common` and the added fields in `added`
GeneratedFieldMappings(source_table, target_table, rules, common, added) ==
    LET source_fields == FieldsByName(source_table)
        target_fields == FieldsByName(target_table)
    IN  [i \in DOMAIN common |->
            CommonFieldMapping(common[i], source_fields[common[i]],
                               target_fields[common[i]])]
        \o AddedFieldMappings(added, target_fields, rules)

\* a generator whose manual branch forgets to count the field
ManualFields_Forgotten(target_table, source_table, rules) == {}

\* the number of added fields that took the manual branch
ManualFields(target_table, source_table, rules) ==
    LET source_fields == FieldsByName(source_table)
        target_fields == FieldsByName(target_table)
    IN  {n \in DOMAIN target_fields \ DOMAIN source_fields :
            AddedFieldMapping(n, target_fields[n], rules) = <<>>}

----------------------------------------------------------------------------
(* Mapping applier: mapper.py *)

\* DataMapper._apply_transform; Raised when int() raises
apply_transform(value, transform) ==
    IF transform = "to_string" THEN (IF value # Null THEN py_str(value) ELSE Null)
    ELSE IF transform = "to_int" THEN (IF value # Null THEN py_int(value) ELSE Null)
    ELSE value

\* `if field_mapping.transform`: None and the empty string are falsy
Truthy(transform) == transform # NONE /\ transform # ""

\* map_row with the transform tried before the default
MappedValue_TransformFirst(field_mapping, source_row) ==
    LET source_value == DictGet(source_row, field_mapping.source_field)
    IN  IF Truthy(field_mapping.transform)
        THEN apply_transform(source_value, field_mapping.transform)
        ELSE IF source_value = Null /\ field_mapping.default_value # Null
        THEN field_mapping.default_value
        ELSE source_value

\* map_row, one FieldMapping: the value stored under its target_field
MappedValue(field_mapping, source_row) ==
    LET source_value == DictGet(source_row, field_mapping.source_field)
    IN  IF source_value = Null /\ field_mapping.default_value # Null
        THEN field_mapping.default_value
        ELSE IF Truthy(field_mapping.transform)
        THEN apply_transform(source_value, field_mapping.transform)
        ELSE source_value

RECURSIVE MapFields(_, _, _)
\* map_row, the loop over mapping.field_mappings: the target row, or Raised as
\* soon as a transform raises
MapFields(field_mappings, source_row, target_row) ==
    IF field_mappings = <<>> THEN target_row
    ELSE LET value == MappedValue(Head(field_mappings), source_row)
         IN  IF value = Raised THEN Raised
             ELSE MapFields(Tail(field_mappings), source_row,
                            DictSet(target_row, Head(field_mappings).target_field,
                                    value))

\* map_row that fills the source row in instead of starting an empty target row
map_row_Merge(store, table_name, source_row) ==
    IF table_name \notin DOMAIN store THEN source_row
    ELSE MapFields(store[table_name].field_mappings, source_row, source_row)

\* DataMapper.map_row on the mapping store `store`
map_row(store, table_name, source_row) ==
    IF table_name \notin DOMAIN store THEN source_row
    ELSE MapFields(store[table_name].field_mappings, source_row, EmptyDict)

\* rows a caller passes to map_row, or a backup record holds
Rows ==
    { [x \in {"id", "name", "age"} |->
          CASE x = "id" -> I("1") [] x = "name" -> S("A") [] x = "age" -> I("45")],
      [x \in {"id", "name", "age"} |->
          CASE x = "id" -> I("2") [] x = "name" -> S("B") [] x = "age" -> Null],
      [x \in {"id", "age"} |-> IF x = "id" THEN S("7") ELSE S("45")],
      [x \in {"name", "age"} |-> S("A")],
      EmptyDict }

\* TableMappings a caller writes by hand and registers with add_table_mapping
ManualMappings ==
    { \* only direct entries
      TableMapping("patients", "patients",
        <<FieldMapping("id", "id", NONE, Null, "direct"),
          FieldMapping("name", "name", NONE, Null, "direct")>>),
      \* registered, but with no field mapping
      TableMapping("patients", "patients", <<>>),
      \* transforms, a default beside a transform, an unknown transform name
      TableMapping("patients", "patients",
        <<FieldMapping("id", "id", "to_string", Null, "cast"),
          FieldMapping("age", "age", "to_int", I("7"), "cast"),
          FieldMapping("name", "name", "upper", Null, "computed"),
          FieldMapping(NONE, "email", NONE, S("n/a"), "default")>>),
      \* the casts of the type resolver, a renamed field written twice
      TableMapping("patients", "patients",
        <<FieldMapping("age", "age", "to_bigint", Null, "cast"),
          FieldMapping("name", "label", "to_text", Null, "cast"),
          FieldMapping("id", "label", "", Null, "direct"),
          FieldMapping("id", "id", "identity", Null, "cast")>>) }

\* placeholders of `ret` for what a call does not have
NoMapping == TableMapping(NONE, NONE, <<>>)
NoCall ==
    [op |-> "init", table |-> NONE, row |-> EmptyDict, mapping |-> NoMapping,
     out |-> EmptyDict, raised |-> FALSE, auto_before |-> 0, manual_before |-> 0,
     v1 |-> NONE, v2 |-> NONE, rows |-> <<>>]

----------------------------------------------------------------------------
(* DataMapper: state after __init__ and its operations *)

Init ==
    /\ source_schema \in DOMAIN Versions
    /\ target_schema \in DOMAIN Versions
    /\ mappings = EmptyDict
    /\ auto_generated_count = 0
    /\ manual_count = 0
    /\ transformation_rules = {}
    /\ target_version = target_schema
    /\ mapper = TRUE
    /\ versions = DOMAIN Versions
    /\ hash_seed \in HashSeeds
    /\ map_row_calls = <<>>
    /\ ret = NoCall
    /\ prev = NoCall

\* generate_automatic_mapping(table_name), the table present in both schemas
GenerateAutomaticMapping(table_name) ==
    /\ auto_generated_count + manual_count < MaxCount
    /\ table_name \in DOMAIN Versions[source_schema].tables
    /\ table_name \in DOMAIN Versions[target_schema].tables
    /\ LET source_table == Versions[source_schema].tables[table_name]
           target_table == Versions[target_schema].tables[table_name]
           source_names == DOMAIN FieldsByName(source_table)
           target_names == DOMAIN FieldsByName(target_table)
       IN    LET common == SetOrder(source_names \cap target_names, hash_seed)
                 added == SetOrder(target_names \ source_names, hash_seed)
                 field_mappings ==
                   GeneratedFieldMappings(source_table, target_table,
                                          transformation_rules, common, added)
                 manual == ManualFields(target_table, source_table,
                                        transformation_rules)
             IN  /\ auto_generated_count' =
                        auto_generated_count + Len(field_mappings)
                 /\ manual_count' = manual_count + Cardinality(manual)
                 /\ ret' = [NoCall EXCEPT
                              !.op = "generate_automatic_mapping",
                              !.table = table_name,
                              !.mapping = TableMapping(table_name, table_name,
                                                       field_mappings),
                              !.auto_before = auto_generated_count,
                              !.manual_before = manual_count]
    /\ UNCHANGED <<source_schema, target_schema, mappings, transformation_rules,
                   target_version, mapper, versions, hash_seed, map_row_calls, prev>>

\* generate_automatic_mapping(table_name), the table absent from a schema: ValueError
GenerateTableNotFound(table_name) ==
    /\ \/ table_name \notin DOMAIN Versions[source_schema].tables
       \/ table_name \notin DOMAIN Versions[target_schema].tables
    /\ ret' = [NoCall EXCEPT !.op = "generate_automatic_mapping",
                             !.table = table_name, !.raised = TRUE,
                             !.auto_before = auto_generated_count,
                             !.manual_before = manual_count]
    /\ UNCHANGED <<source_schema, target_schema, mappings, auto_generated_count,
                   manual_count, transformation_rules, target_version, mapper,
                   versions, hash_seed, map_row_calls, prev>>

\* the caller registers a computed-transform rule: transformation_rules[name] = f
RegisterRule(name) ==
    /\ name \notin transformation_rules
    /\ transformation_rules' = transformation_rules \cup {name}
    /\ ret' = [NoCall EXCEPT !.op = "register_rule"]
    /\ UNCHANGED <<source_schema, target_schema, mappings, auto_generated_count,
                   manual_count, target_version, mapper, versions, hash_seed, map_row_calls, prev>>

\* add_table_mapping(mapping)
AddTableMapping(mapping) ==
    /\ mappings' = DictSet(mappings, mapping.source_table, mapping)
    /\ ret' = [NoCall EXCEPT !.op = "add_table_mapping", !.mapping = mapping]
    /\ UNCHANGED <<source_schema, target_schema, auto_generated_count, manual_count,
                   transformation_rules, target_version, mapper, versions, hash_seed, map_row_calls, prev>>

\* add_table_mapping with the mapping generate_automatic_mapping just returned
AddGeneratedMapping ==
    /\ ret.op = "generate_automatic_mapping"
    /\ ~ret.raised
    /\ AddTableMapping(ret.mapping)

\* map_row(table_name, source_row)
MapRow(table_name, source_row) ==
    /\ LET out == map_row(mappings, table_name, source_row)
       IN  ret' = [NoCall EXCEPT !.op = "map_row", !.table = table_name,
                                 !.row = source_row,
                                 !.raised = (out = Raised),
                                 !.out = IF out = Raised THEN EmptyDict ELSE out]
    /\ map_row_calls' = <<<<table_name, source_row>>>>
    /\ UNCHANGED <<source_schema, target_schema, mappings, auto_generated_count,
                   manual_count, transformation_rules, target_version, mapper,
                   versions, hash_seed, prev>>

Next ==
    \/ \E t \in TableNames : GenerateAutomaticMapping(t)
    \/ \E t \in TableNames : GenerateTableNotFound(t)
    \/ \E n \in {"label"} : RegisterRule(n)
    \/ \E m \in ManualMappings : AddTableMapping(m)
    \/ AddGeneratedMapping
    \/ \E t \in TableNames, r \in Rows : MapRow(t, r)

Spec == Init /\ [][Next]_vars

----------------------------------------------------------------------------
(* Schema registry: schema_manager.py *)

\* a comparison that also looks at the default
FieldModified_WithDefault(f1, f2) ==
    f1.type # f2.type \/ f1.nullable # f2.nullable \/ f1.default # f2.default

\* _compare_tables: a common field counts as modified
FieldModified(f1, f2) == f1.type # f2.type \/ f1.nullable # f2.nullable

\* the value of _compare_tables's `return None`
NoDiff ==
    [is_none |-> TRUE, added_fields |-> <<>>, removed_fields |-> <<>>,
     modified_fields |-> EmptyDict]

\* SchemaManager._compare_tables
compare_tables(table1, table2, seed) ==
    LET fields1 == FieldsByName(table1)
        fields2 == FieldsByName(table2)
        common_fields == DOMAIN fields1 \cap DOMAIN fields2
        diff ==
          [is_none |-> FALSE,
           added_fields |-> SetOrder(DOMAIN fields2 \ DOMAIN fields1, seed),
           removed_fields |-> SetOrder(DOMAIN fields1 \ DOMAIN fields2, seed),
           modified_fields |->
             [n \in {x \in common_fields : FieldModified(fields1[x], fields2[x])} |->
                [old |-> [type |-> fields1[n].type, nullable |-> fields1[n].nullable],
                 new |-> [type |-> fields2[n].type, nullable |-> fields2[n].nullable]]]]
    IN  IF /\ diff.added_fields = <<>>
           /\ diff.removed_fields = <<>>
           /\ DOMAIN diff.modified_fields = {}
        THEN NoDiff
        ELSE diff

\* compare_versions: the table names put in added_tables
AddedTables(tables1, tables2) == tables2 \ tables1

\* a removed_tables that forgets to take the tables of v2 away
RemovedTables_All(tables1, tables2) == tables1

\* compare_versions: the table names put in removed_tables
RemovedTables(tables1, tables2) == tables1 \ tables2

\* SchemaManager.compare_versions for two registered versions
compare_versions(v1, v2, seed) ==
    LET schema1 == Versions[v1]
        schema2 == Versions[v2]
        tables1 == DOMAIN schema1.tables
        tables2 == DOMAIN schema2.tables
        common_tables == tables1 \cap tables2
        table_diff(t) == compare_tables(schema1.tables[t], schema2.tables[t], seed)
    IN  [added_tables |-> SetOrder(AddedTables(tables1, tables2), seed),
         removed_tables |-> SetOrder(RemovedTables(tables1, tables2), seed),
         modified_tables |->
           [t \in {x \in common_tables : ~table_diff(x).is_none} |-> table_diff(t)]]

\* the registry after __init__ has loaded some of the version documents
InitRegistry ==
    /\ versions \in SUBSET DOMAIN Versions
    /\ hash_seed \in HashSeeds
    /\ source_schema = "1.0.0"
    /\ target_schema = "1.0.0"
    /\ mappings = EmptyDict
    /\ auto_generated_count = 0
    /\ manual_count = 0
    /\ transformation_rules = {}
    /\ target_version = "1.0.0"
    /\ mapper = FALSE
    /\ map_row_calls = <<>>
    /\ ret = NoCall
    /\ prev = NoCall

\* compare_versions(v1, v2), both registered
CompareVersions(v1, v2) ==
    /\ v1 \in versions
    /\ v2 \in versions
    /\ ret' = [NoCall EXCEPT !.op = "compare_versions", !.v1 = v1, !.v2 = v2,
                             !.out = compare_versions(v1, v2, hash_seed)]
    /\ prev' = ret
    /\ UNCHANGED <<source_schema, target_schema, mappings, auto_generated_count,
                   manual_count, transformation_rules, target_version, mapper,
                   versions, hash_seed, map_row_calls>>

\* compare_versions(v1, v2), one of them unregistered: ValueError
CompareVersionNotFound(v1, v2) ==
    /\ v1 \notin versions \/ v2 \notin versions
    /\ ret' = [NoCall EXCEPT !.op = "compare_versions", !.v1 = v1, !.v2 = v2,
                             !.raised = TRUE]
    /\ prev' = ret
    /\ UNCHANGED <<source_schema, target_schema, mappings, auto_generated_count,
                   manual_count, transformation_rules, target_version, mapper,
                   versions, hash_seed, map_row_calls>>

NextRegistry ==
    \/ \E v1, v2 \in VersionLabels : CompareVersions(v1, v2)
    \/ \E v1, v2 \in VersionLabels : CompareVersionNotFound(v1, v2)

SpecRegistry == InitRegistry /\ [][NextRegistry]_vars

----------------------------------------------------------------------------
(* Restore engine: restore_engine.py *)

RECURSIVE SeqsUpTo(_, _)
\* the sequences over `set` of length at most n
SeqsUpTo(set, n) ==
    IF n = 0 THEN {<<>>}
    ELSE LET shorter == SeqsUpTo(set, n - 1)
         IN  shorter \cup {Append(q, x) : q \in shorter, x \in set}

\* the rows backed up: those of Rows that carry an age
BackupRows == {r \in Rows : DictGet(r, "age") # Null}

\* what json.load returns for a backup file: the keys restore_from_file reads
BackupRecords ==
    [schema_version : DOMAIN Versions, table_name : {"patients", "visits"},
     data : SeqsUpTo(BackupRows, MaxRows)]

RECURSIVE MapRows(_, _, _)
\* [self.mapper.map_row(table_name, row) for row in rows]: the list built, the
\* map_row calls made, and whether one of them raised (which ends the loop)
MapRows(store, table_name, rows) ==
    IF rows = <<>> THEN [out |-> <<>>, calls |-> <<>>, raised |-> FALSE]
    ELSE LET first == map_row(store, table_name, Head(rows))
             rest == MapRows(store, table_name, Tail(rows))
         IN  IF first = Raised
             THEN [out |-> <<>>, calls |-> <<<<table_name, Head(rows)>>>>,
                   raised |-> TRUE]
             ELSE [out |-> IF rest.raised THEN <<>> ELSE <<first>> \o rest.out,
                   calls |-> <<<<table_name, Head(rows)>>>> \o rest.calls,
                   raised |-> rest.raised]

\* a restore that maps whenever a mapper is configured, equal versions or not
restore_from_file_AlwaysMap(backup_data, version, configured, store) ==
    IF configured
    THEN MapRows(store, backup_data.table_name, backup_data.data)
    ELSE [out |-> backup_data.data, calls |-> <<>>, raised |-> FALSE]

\* RestoreEngine.restore_from_file on the engine (version, configured) and the
\* mapping store of its mapper
restore_from_file(backup_data, version, configured, store) ==
    LET source_version == backup_data.schema_version
        table_name == backup_data.table_name
        rows == backup_data.data
    IN  IF source_version = version
        THEN [out |-> rows, calls |-> <<>>, raised |-> FALSE]
        ELSE IF configured
        THEN MapRows(store, table_name, rows)
        ELSE [out |-> rows, calls |-> <<>>, raised |-> FALSE]

\* a RestoreEngine constructed for a target version, with or without the mapper
InitRestore ==
    /\ target_version \in DOMAIN Versions
    /\ mapper \in BOOLEAN
    /\ source_schema = "1.0.0"
    /\ target_schema = target_version
    /\ mappings = EmptyDict
    /\ auto_generated_count = 0
    /\ manual_count = 0
    /\ transformation_rules = {}
    /\ versions = DOMAIN Versions
    /\ hash_seed = "ascending"
    /\ map_row_calls = <<>>
    /\ ret = NoCall
    /\ prev = NoCall

\* restore_from_file(backup_file), the file holding backup_data
RestoreFromFile(backup_data) ==
    /\ LET r == restore_from_file(backup_data, target_version, mapper, mappings)
       IN  /\ ret' = [NoCall EXCEPT !.op = "restore_from_file",
                                    !.table = backup_data.table_name,
                                    !.v1 = backup_data.schema_version,
                                    !.rows = backup_data.data,
                                    !.out = r.out,
                                    !.raised = r.raised]
           /\ map_row_calls' = r.calls
    /\ UNCHANGED <<source_schema, target_schema, mappings, auto_generated_count,
                   manual_count, transformation_rules, target_version, mapper,
                   versions, hash_seed, prev>>

NextRestore ==
    \/ \E m \in ManualMappings : AddTableMapping(m)
    \/ \E b \in BackupRecords : RestoreFromFile(b)

SpecRestore == InitRestore /\ [][NextRestore]_vars

----------------------------------------------------------------------------
(* Properties of the mapping generator *)

\* the last call was a generate_automatic_mapping that returned a TableMapping
GenerateReturned == ret.op = "generate_automatic_mapping" /\ ~ret.raised

\* the fields, by name, of the table the last call named
SourceFields == FieldsByName(Versions[source_schema].tables[ret.table])
TargetFields == FieldsByName(Versions[target_schema].tables[ret.table])

\* the FieldMappings the last generate_automatic_mapping returned, as a set
Emitted ==
    {ret.mapping.field_mappings[i] : i \in DOMAIN ret.mapping.field_mappings}

\* the returned FieldMappings whose target_field is n
EmittedFor(n) == {m \in Emitted : m.target_field = n}

\* C1: for every field common to source and target, identical types give a
\* 'direct' FieldMapping without transform, and a widening pair gives a 'cast'
\* FieldMapping whose transform is the cast of the pair; for patients 1.0.0 ->
\* 2.0.0 on a fresh mapper the mapping is id->direct, name->direct,
\* age->cast(to_bigint), email->default(null), with counters 4 and 0.
C1_CommonFieldsDirectOrCast ==
    GenerateReturned =>
      /\ \A n \in DOMAIN SourceFields \cap DOMAIN TargetFields :
           LET st == SourceFields[n].type
               tt == TargetFields[n].type
           IN  /\ st = tt =>
                     EmittedFor(n) = {FieldMapping(n, n, NONE, Null, "direct")}
               /\ (st # tt /\ <<st, tt>> \in compatible_types) =>
                     EmittedFor(n) =
                       {FieldMapping(n, n, get_type_cast(st, tt), Null, "cast")}
      /\ ( /\ source_schema = "1.0.0"
           /\ target_schema = "2.0.0"
           /\ ret.table = "patients"
           /\ ret.auto_before = 0
           /\ ret.manual_before = 0 ) =>
           /\ Emitted = {FieldMapping("id", "id", NONE, Null, "direct"),
                         FieldMapping("name", "name", NONE, Null, "direct"),
                         FieldMapping("age", "age", "to_bigint", Null, "cast"),
                         FieldMapping(NONE, "email", NONE, Null, "default")}
           /\ auto_generated_count = 4
           /\ manual_count = 0

\* the added fields of the last call whose outcome is the manual one
NeedManual ==
    {n \in DOMAIN TargetFields \ DOMAIN SourceFields :
        /\ TargetFields[n].default = Null
        /\ n \notin transformation_rules
        /\ ~TargetFields[n].nullable}

\* C2: every field present only in the target gets exactly one of: a 'default'
\* mapping with its declared default; else a 'computed' mapping named after it
\* when a rule is registered; else a 'default' mapping with null when nullable;
\* else no mapping and manual_count + 1. The first three add one to
\* auto_generated_count each, and the call returns without failing.
C2_AddedFieldOutcome ==
    /\ ( /\ ret.op = "generate_automatic_mapping"
         /\ ret.table \in DOMAIN Versions[source_schema].tables
         /\ ret.table \in DOMAIN Versions[target_schema].tables ) => ~ret.raised
    /\ GenerateReturned =>
         LET added == DOMAIN TargetFields \ DOMAIN SourceFields
             common == DOMAIN TargetFields \cap DOMAIN SourceFields
         IN  /\ \A n \in added :
                   EmittedFor(n) =
                     IF TargetFields[n].default # Null
                     THEN {FieldMapping(NONE, n, NONE, TargetFields[n].default,
                                        "default")}
                     ELSE IF n \in transformation_rules
                     THEN {FieldMapping(NONE, n, n, Null, "computed")}
                     ELSE IF TargetFields[n].nullable
                     THEN {FieldMapping(NONE, n, NONE, Null, "default")}
                     ELSE {}
             /\ Len(ret.mapping.field_mappings) =
                   Cardinality(common) + Cardinality(added \ NeedManual)
             /\ manual_count = ret.manual_before + Cardinality(NeedManual)
             /\ auto_generated_count =
                   ret.auto_before + Cardinality(common)
                     + Cardinality(added \ NeedManual)

\* a fresh mapper was asked for patients 1.0.0 -> 3.0.0 with a rule for label:
\* status took its default, label the rule, and ssn was left to a human
C2_Witness ==
    /\ GenerateReturned
    /\ ret.auto_before = 0
    /\ ret.manual_before = 0
    /\ NeedManual = {"ssn"}
    /\ manual_count = 1
    /\ FieldMapping(NONE, "label", "label", Null, "computed") \in Emitted
    /\ FieldMapping(NONE, "status", NONE, S("new"), "default") \in Emitted

\* C4: with identical source and target schema versions every generated mapping
\* holds exactly one FieldMapping per field of the table, each 'direct' with
\* source_field = target_field and no transform or default, and manual_count
\* stays 0 over any sequence of calls.
C4_IdenticalSchemasAllDirect ==
    source_schema = target_schema =>
      /\ manual_count = 0
      /\ GenerateReturned =>
           /\ Len(ret.mapping.field_mappings) = Cardinality(DOMAIN TargetFields)
           /\ \A n \in DOMAIN TargetFields :
                EmittedFor(n) = {FieldMapping(n, n, NONE, Null, "direct")}

\* a mapper over identical schemas returned a second mapping
C4_Witness ==
    /\ source_schema = target_schema
    /\ GenerateReturned
    /\ ret.auto_before > 0
    /\ Len(ret.mapping.field_mappings) > 1

----------------------------------------------------------------------------
(* Properties of the mapping applier *)

\* the last call was a map_row that returned a row
MapRowReturned == ret.op = "map_row" /\ ~ret.raised

\* the FieldMappings registered for the table the last call named
Registered == mappings[ret.table].field_mappings

\* the target_field names of the registered mapping
TargetNames == {Registered[i].target_field : i \in DOMAIN Registered}

\* C3: map_row projects: with a TableMapping registered for the table the keys
\* of the returned row are exactly the target_field names of its field_mappings
\* (none at all for an empty field_mappings list); with no TableMapping
\* registered the source row is returned unchanged.
C3_MapRowProjection ==
    MapRowReturned =>
      IF ret.table \in DOMAIN mappings
      THEN /\ DOMAIN ret.out = TargetNames
           /\ Registered = <<>> => ret.out = EmptyDict
      ELSE ret.out = ret.row

\* a registered mapping dropped a source key and produced a key the source row
\* does not have
C3_Witness ==
    /\ MapRowReturned
    /\ ret.table \in DOMAIN mappings
    /\ DOMAIN ret.row \ DOMAIN ret.out # {}
    /\ DOMAIN ret.out \ DOMAIN ret.row # {}

\* the transform names of the applier's registry
TransformRegistry ==
    {"to_string", "to_int", "to_bigint", "to_double", "to_text", "to_datetime",
     "identity"}

\* the value the three rules give one FieldMapping: the default for an absent or
\* null source value when a default is configured; else the registry's
\* transform of the source value, when a transform is configured (a name outside
\* the registry leaves the value as it is); else the source value
RuleValue(m, row) ==
    LET absent_or_null == m.source_field \notin DOMAIN row \/ row[m.source_field] = Null
        value == IF m.source_field \in DOMAIN row THEN row[m.source_field] ELSE Null
    IN  CASE absent_or_null /\ m.default_value # Null -> m.default_value
          [] ~(absent_or_null /\ m.default_value # Null)
               /\ m.transform \notin {NONE, ""} ->
               IF m.transform \notin TransformRegistry THEN value
               ELSE IF value = Null THEN Null
               ELSE IF m.transform = "to_string" THEN S(value.v)
               ELSE IF m.transform = "to_int" THEN I(value.v)
               ELSE value
          [] OTHER -> value

\* C5: each target field of the returned row holds the value the three rules
\* give the last FieldMapping naming it: default first, then transform, then
\* verbatim copy; map_row fails only inside a registry transform, never for a
\* transform name outside the registry.
C5_ValuePrecedence ==
    /\ (MapRowReturned /\ ret.table \in DOMAIN mappings) =>
         \A i \in DOMAIN Registered :
           (\A j \in DOMAIN Registered :
               Registered[j].target_field = Registered[i].target_field => j <= i)
           => ret.out[Registered[i].target_field] = RuleValue(Registered[i], ret.row)
    /\ (ret.op = "map_row" /\ ret.raised) =>
         \E i \in DOMAIN Registered :
           /\ Registered[i].transform \in TransformRegistry
           /\ Registered[i].source_field \in DOMAIN ret.row

\* a FieldMapping with a transform and a default met a null source value and
\* gave the default, beside an unknown transform name that copied its value
C5_Witness ==
    /\ MapRowReturned
    /\ ret.table \in DOMAIN mappings
    /\ \E i, j \in DOMAIN Registered :
         /\ Registered[i].transform = "to_int"
         /\ Registered[i].default_value # Null
         /\ Registered[i].source_field \in DOMAIN ret.row
         /\ ret.row[Registered[i].source_field] = Null
         /\ ret.out[Registered[i].target_field] = Registered[i].default_value
         /\ Registered[j].transform \notin TransformRegistry \cup {NONE, ""}
         /\ Registered[j].source_field \in DOMAIN ret.row
         /\ ret.out[Registered[j].target_field] = ret.row[Registered[j].source_field]
         /\ ret.out[Registered[j].target_field] # Null

\* every registered FieldMapping of the table is a plain copy of a field
AllDirect ==
    \A i \in DOMAIN Registered :
      /\ Registered[i].mapping_type = "direct"
      /\ Registered[i].source_field = Registered[i].target_field
      /\ Registered[i].transform = NONE
      /\ Registered[i].default_value = Null

\* the source row restricted to the keys it has among `keys`
SelectKeys(row, keys) == [x \in keys \cap DOMAIN row |-> row[x]]

\* C6 as stated: under a mapping of only direct entries map_row returns the
\* selection of the mapped keys from the source row, also for rows that lack
\* some of the mapped keys.
C6_DirectIsSelection ==
    (MapRowReturned /\ ret.table \in DOMAIN mappings /\ AllDirect) =>
      ret.out = SelectKeys(ret.row, TargetNames)

\* C6 amended: under a mapping of only direct entries the returned row has
\* exactly the mapped keys, each with the source row's value, or null for a key
\* the source row lacks; it is the selection of the mapped keys whenever the
\* source row has them all.
C6_DirectIsSelectionOfPresentKeys ==
    (MapRowReturned /\ ret.table \in DOMAIN mappings /\ AllDirect) =>
      /\ DOMAIN ret.out = TargetNames
      /\ \A x \in TargetNames :
           ret.out[x] = IF x \in DOMAIN ret.row THEN ret.row[x] ELSE Null
      /\ TargetNames \subseteq DOMAIN ret.row =>
           ret.out = SelectKeys(ret.row, TargetNames)

\* a direct-only mapping was applied to a row that has all mapped keys and one
\* more, and to no empty mapping
C6_Witness ==
    /\ MapRowReturned
    /\ ret.table \in DOMAIN mappings
    /\ AllDirect
    /\ TargetNames # {}
    /\ TargetNames \subseteq DOMAIN ret.row
    /\ DOMAIN ret.row \ TargetNames # {}
    /\ ret.out = SelectKeys(ret.row, TargetNames)

\* C7: every TableMapping, generated or registered by hand, is held in the
\* mapping store under its source_table, so that map_row applies a mapping
\* right after generate_automatic_mapping returned it.
C7_GeneratedMappingStored ==
    /\ ret.op = "add_table_mapping" =>
         /\ ret.mapping.source_table \in DOMAIN mappings
         /\ mappings[ret.mapping.source_table] = ret.mapping
    /\ GenerateReturned =>
         /\ ret.table \in DOMAIN mappings
         /\ mappings[ret.table] = ret.mapping
         /\ \A r \in Rows :
              map_row(mappings, ret.table, r) =
                MapFields(ret.mapping.field_mappings, r, EmptyDict)

----------------------------------------------------------------------------
(* Properties of the schema registry *)

\* the last call was a compare_versions that returned a diff
CompareReturned == ret.op = "compare_versions" /\ ~ret.raised

\* the tables of a version, and the fields of one of them by name
TablesOf(v) == Versions[v].tables
FieldsOf(v, t) == FieldsByName(TablesOf(v)[t])

\* a field of table t was added, removed, or changed in type or nullable
\* between versions v1 and v2
FieldsChanged(v1, v2, t) ==
    \/ DOMAIN FieldsOf(v1, t) # DOMAIN FieldsOf(v2, t)
    \/ \E n \in DOMAIN FieldsOf(v1, t) \cap DOMAIN FieldsOf(v2, t) :
         \/ FieldsOf(v1, t)[n].type # FieldsOf(v2, t)[n].type
         \/ FieldsOf(v1, t)[n].nullable # FieldsOf(v2, t)[n].nullable

\* the elements of a list
Elements(seq) == {seq[i] : i \in DOMAIN seq}

\* C8: modified_tables has an entry for t exactly when t is in both versions and
\* a field of t was added, removed, or changed in type or nullable (a change of
\* only a default, the primary key or the foreign keys gives no entry); and
\* compare(v, v) is empty in all three parts.
C8_ModifiedTablesIffFieldChange ==
    CompareReturned =>
      /\ \A t \in TableNames :
           t \in DOMAIN ret.out.modified_tables <=>
             /\ t \in DOMAIN TablesOf(ret.v1)
             /\ t \in DOMAIN TablesOf(ret.v2)
             /\ FieldsChanged(ret.v1, ret.v2, t)
      /\ DOMAIN ret.out.modified_tables \subseteq TableNames
      /\ ret.v1 = ret.v2 =>
           /\ ret.out.added_tables = <<>>
           /\ ret.out.removed_tables = <<>>
           /\ DOMAIN ret.out.modified_tables = {}

\* 2.0.0 was compared with 3.0.0: patients is modified, labs, which differs only
\* in a default, its primary key and a foreign key, is not
C8_Witness ==
    /\ CompareReturned
    /\ ret.v1 = "2.0.0"
    /\ ret.v2 = "3.0.0"
    /\ TablesOf(ret.v1)["labs"] # TablesOf(ret.v2)["labs"]
    /\ DOMAIN ret.out.modified_tables = {"patients"}

\* C9: compare(v1, v2).added_tables = compare(v2, v1).removed_tables and the
\* other way round, as sets, and both directions name the same modified tables.
C9_CompareSymmetric ==
    ( /\ CompareReturned
      /\ prev.op = "compare_versions"
      /\ ~prev.raised
      /\ prev.v1 = ret.v2
      /\ prev.v2 = ret.v1 ) =>
      /\ Elements(ret.out.added_tables) = Elements(prev.out.removed_tables)
      /\ Elements(ret.out.removed_tables) = Elements(prev.out.added_tables)
      /\ DOMAIN ret.out.modified_tables = DOMAIN prev.out.modified_tables

\* compare(3.0.0, 1.0.0) was followed by compare(1.0.0, 3.0.0): a table added,
\* a table removed and a table modified
C9_Witness ==
    /\ CompareReturned
    /\ prev.op = "compare_versions"
    /\ ~prev.raised
    /\ prev.v1 = ret.v2
    /\ prev.v2 = ret.v1
    /\ ret.v1 # ret.v2
    /\ ret.out.added_tables # <<>>
    /\ ret.out.removed_tables # <<>>
    /\ DOMAIN ret.out.modified_tables # {}

----------------------------------------------------------------------------
(* Properties of the restore engine *)

\* the map_row calls that map every row of the record, in row order
CallPerRow == [i \in DOMAIN ret.rows |-> <<ret.table, ret.rows[i]>>]

\* C10: a record whose schema_version is the engine's target_version comes back
\* as its row sequence, unchanged, and map_row is not called, mapper or not;
\* map_row is called, once per row in row order, only when the versions differ
\* and a mapper is configured (the calls stop at a row for which map_row fails).
C10_SameVersionUntouched ==
    ret.op = "restore_from_file" =>
      /\ ret.v1 = target_version =>
           /\ ~ret.raised
           /\ ret.out = ret.rows
           /\ map_row_calls = <<>>
      /\ map_row_calls # <<>> => (ret.v1 # target_version /\ mapper)
      /\ (ret.v1 # target_version /\ mapper) =>
           /\ ~ret.raised => map_row_calls = CallPerRow
           /\ ret.raised =>
                /\ map_row_calls # <<>>
                /\ map_row_calls = SubSeq(CallPerRow, 1, Len(map_row_calls))
      /\ (ret.v1 # target_version /\ ~mapper) =>
           /\ ~ret.raised
           /\ ret.out = ret.rows

\* a record of the target version with two rows was restored by an engine whose
\* mapper holds a mapping for the table that would have changed both rows
C10_Witness ==
    /\ ret.op = "restore_from_file"
    /\ ret.v1 = target_version
    /\ mapper
    /\ Len(ret.rows) = 2
    /\ ret.rows[1] # ret.rows[2]
    /\ ret.table \in DOMAIN mappings
    /\ \A i \in DOMAIN ret.rows :
         map_row(mappings, ret.table, ret.rows[i]) # ret.rows[i]
    /\ ret.out = ret.rows


----------------------------------------------------------------------------
(* Properties of the counters *)

\* C11: the counters are running totals: a generate_automatic_mapping call that
\* returns adds the number of FieldMappings it returns to auto_generated_count
\* and the number of fields of the target table to auto_generated_count +
\* manual_count; a call that fails for a table absent from a schema leaves the
\* counters and the mapping store as they were; map_row and add_table_mapping
\* leave both counters as they were.
C11_CountersAreRunningTotals ==
    [][ /\ (ret'.op = "generate_automatic_mapping" /\ ~ret'.raised) =>
             /\ auto_generated_count' =
                  auto_generated_count + Len(ret'.mapping.field_mappings)
             /\ auto_generated_count' + manual_count' =
                  auto_generated_count + manual_count
                    + Cardinality(DOMAIN FieldsByName(
                          Versions[target_schema].tables[ret'.table]))
        /\ (ret'.op = "generate_automatic_mapping" /\ ret'.raised) =>
             /\ \/ ret'.table \notin DOMAIN Versions[source_schema].tables
                \/ ret'.table \notin DOMAIN Versions[target_schema].tables
             /\ auto_generated_count' = auto_generated_count
             /\ manual_count' = manual_count
             /\ mappings' = mappings
        /\ ret'.op \in {"map_row", "add_table_mapping"} =>
             /\ auto_generated_count' = auto_generated_count
             /\ manual_count' = manual_count
      ]_vars

\* a second call returned on a mapper whose counters were already above 0 and
\* added to both of them
C11_Witness ==
    /\ GenerateReturned
    /\ ret.auto_before > 0
    /\ manual_count > ret.manual_before
    /\ auto_generated_count =
         ret.auto_before + Len(ret.mapping.field_mappings)
    /\ auto_generated_count > Len(ret.mapping.field_mappings)

====
